---- MODULE Spec2Model ----
(***************************************************************************)
(* Model of the settings store of the Mattermost desktop client            *)
(* (src/common/settings.js and its older sibling): the versioned           *)
(* load/upgrade/persist cycle of config.json, the merge of the build's     *)
(* default teams with the user's teams, and the group-policy lookups.      *)
(***************************************************************************)
EXTENDS Integers, Sequences, FiniteSets, TLC

VARIABLES
  fs,                 \* the file system: [dir, file] of userData/config.json
  configFile,         \* module-global path, set by init (TRUE once set)
  defaultPreferences, \* ./config/defaultPreferences
  buildConfig,        \* ./config/buildConfig
  platform,           \* process.platform
  module,             \* which of the two near-identical modules is loaded
  registry,           \* the Windows policy registry, per hive
  callbackSync,       \* does regKey.values run its callback before returning
  last                \* the last call: operation, inputs, outcome, result

vars == <<fs, configFile, defaultPreferences, buildConfig, platform, module,
          registry, callbackSync, last>>

----------------------------------------------------------------------------
(* Bounds *)

MaxTeams == 2
MaxItems == 2

(* Values *)

CurrentVersion == 1
Versions == {0, 1, 2}

URLs == {"https://a", "https://b"}
Names == {"vendor", "mine"}
Team == [name : Names, url : URLs]

SeqsUpTo(S, n) == UNION {[1..k -> S] : k \in 0..n}

Undefined == [undefined |-> TRUE]

----------------------------------------------------------------------------
(* File contents.  JSON.stringify turns a document into text and JSON.parse *)
(* turns text back into a document; text that is cut short or is not JSON   *)
(* does not parse.                                                          *)

Absent == [kind |-> "absent"]
Garbage == [kind |-> "text", complete |-> FALSE, of |-> Undefined]

Stringify(doc) == [kind |-> "text", complete |-> TRUE, of |-> doc]
Truncated(text) == [text EXCEPT !.complete = FALSE]
Parses(content) == content.kind = "text" /\ content.complete
Parse(content) == content.of

----------------------------------------------------------------------------
(* function merge(base, target): Object.assign({}, base, target) *)
merge(base, target) == target @@ base

(* function loadDefault(): a deep copy of defaultPreferences *)
loadDefault == Parse(Stringify(defaultPreferences))

(* function hasBuildConfigDefaultTeams(config) *)
hasBuildConfigDefaultTeams(config) == Len(config.defaultTeams) > 0

(* upgradePreferences (./config/upgradePreferences): maps a document of a   *)
(* past version to the current version, leaving the other fields alone; a   *)
(* migration may fail partway; a version newer than current is an error.    *)
upgradePreferences(config, fails) ==
  IF config.version > CurrentVersion \/ fails
    THEN [threw |-> TRUE, config |-> config]
    ELSE [threw |-> FALSE, config |-> [config EXCEPT !.version = CurrentVersion]]

(* function upgrade(config) *)
upgrade(config, fails) == upgradePreferences(config, fails)

(* function readFileSync(configFile) *)
readFileSync(f, readFault) ==
  IF readFault \/ ~Parses(f.file)
    THEN [threw |-> TRUE, config |-> Undefined]
    ELSE LET config == Parse(f.file)
         IN  IF config.version = defaultPreferences.version
               THEN [threw |-> FALSE, config |-> merge(loadDefault, config)]
               ELSE [threw |-> FALSE, config |-> config]

(* Outcomes of the file-system calls of one write: every call succeeds,    *)
(* mkdirSync fails, fs.writeFileSync fails before touching the file, or     *)
(* fs.writeFileSync fails (or the process stops) after the file was opened  *)
(* for writing and truncated, with only part of the data written.           *)
WriteFaults == {"ok", "mkdir", "open", "partial"}

(* fs.writeFileSync(configFile, data, 'utf8') *)
fsWriteFileSync(f, data, fault) ==
  IF ~f.dir \/ fault = "open" THEN [threw |-> TRUE, fs |-> f]
  ELSE IF fault = "partial"
    THEN [threw |-> TRUE, fs |-> [f EXCEPT !.file = Truncated(data)]]
  ELSE [threw |-> FALSE, fs |-> [f EXCEPT !.file = data]]

(* writeFileSync with the version check made after the directory is created *)
writeFileSync_checkAfterMkdir(f, config, fault) ==
  IF ~f.dir /\ fault = "mkdir"
    THEN [threw |-> TRUE, fs |-> f]
  ELSE IF config.version # defaultPreferences.version
    THEN [threw |-> TRUE, fs |-> [f EXCEPT !.dir = TRUE]]
  ELSE fsWriteFileSync([f EXCEPT !.dir = TRUE], Stringify(config), fault)

(* function writeFileSync(configFile, config) *)
writeFileSync(f, config, fault) ==
  IF config.version # defaultPreferences.version
    THEN [threw |-> TRUE, fs |-> f]
  ELSE IF ~f.dir /\ fault = "mkdir"
    THEN [threw |-> TRUE, fs |-> f]
  ELSE fsWriteFileSync([f EXCEPT !.dir = TRUE], Stringify(config), fault)

(* function writeFile(configFile, config, callback): the asynchronous       *)
(* fs.writeFile does not create the directory; its failure goes to callback *)
writeFile(f, config, fault) ==
  IF config.version # defaultPreferences.version
    THEN [threw |-> TRUE, fs |-> f, err |-> FALSE]
    ELSE LET w == fsWriteFileSync(f, Stringify(config), fault)
         IN  [threw |-> FALSE, fs |-> w.fs, err |-> w.threw]

----------------------------------------------------------------------------
(* A bare string or number value standing where an object could stand. *)
JsString(s) == [string |-> s]
JsNumber(n) == [number |-> n]

IsTruthy(config, field) == field \in DOMAIN config

(* init, the catch block: load defaults, seed one team, write *)
initFallback(f, seedFault) ==
  LET config == loadDefault
  IN  IF Len(config.teams) = 0 /\ IsTruthy(config, "defaultTeam")
        THEN LET seeded == [config EXCEPT !.teams = Append(@, config.defaultTeam)]
                 w == writeFileSync(f, seeded, seedFault)
             IN  [threw |-> w.threw, config |-> seeded, fs |-> w.fs,
                  seedWrite |-> IF w.threw THEN "threw" ELSE "ok"]
        ELSE [threw |-> FALSE, config |-> config, fs |-> f, seedWrite |-> "no"]

(* init, the try block and its catch *)
initLoad(f, readFault, upgradeFails, backFault, seedFault) ==
  LET rd == readFileSync(f, readFault)
      up == upgrade(rd.config, upgradeFails)
      wb == writeFileSync(f, up.config, backFault)
      differs == ~rd.threw /\ rd.config.version # defaultPreferences.version
      caught == rd.threw \/ (differs /\ (up.threw \/ wb.threw))
      atCatch == IF differs /\ ~up.threw THEN wb.fs ELSE f
      fb == initFallback(atCatch, seedFault)
      path == [read |-> IF rd.threw THEN "threw" ELSE "ok",
               differs |-> differs,
               upgrade |-> IF ~differs THEN "no"
                           ELSE IF up.threw THEN "threw" ELSE "ok",
               writeBack |-> IF ~differs \/ up.threw THEN "no"
                             ELSE IF wb.threw THEN "threw" ELSE "ok",
               fellBack |-> caught,
               seedWrite |-> IF caught THEN fb.seedWrite ELSE "no"]
  IN  IF caught
        THEN [threw |-> fb.threw, config |-> fb.config, fs |-> fb.fs, path |-> path]
      ELSE IF differs
        THEN [threw |-> FALSE, config |-> up.config, fs |-> wb.fs, path |-> path]
      ELSE [threw |-> FALSE, config |-> rd.config, fs |-> f, path |-> path]

(* init, the win32 block.  In settings.js the block is commented out; in    *)
(* the older module it calls isAddingNewServerPrevented, which is not       *)
(* defined anywhere, so the call raises a ReferenceError.                   *)
initPolicy(config) ==
  IF platform = "win32" /\ module = "part_000"
    THEN [threw |-> TRUE, config |-> config]
    ELSE [threw |-> FALSE, config |-> config]

(* function init(app) *)
init(f, readFault, upgradeFails, backFault, seedFault) ==
  LET ld == initLoad(f, readFault, upgradeFails, backFault, seedFault)
      pol == initPolicy(ld.config)
      hw == "enableHardwareAcceleration" \in DOMAIN pol.config
              /\ pol.config.enableHardwareAcceleration = FALSE
  IN  IF ld.threw \/ pol.threw
        THEN [outcome |-> "raised", result |-> Undefined, fs |-> ld.fs,
              info |-> [path |-> ld.path, hwDisabled |-> FALSE]]
        ELSE [outcome |-> "returned",
              result |-> IF module = "settings.js" THEN pol.config ELSE Undefined,
              fs |-> ld.fs,
              info |-> [path |-> ld.path, hwDisabled |-> hw]]

----------------------------------------------------------------------------------------------------------------------------------------------
(* mergeDefaultTeams without the enableServerManagement test *)
mergeDefaultTeams_unlocked(servers) ==
  LET fromBuild == IF hasBuildConfigDefaultTeams(buildConfig)
                     THEN Parse(Stringify(buildConfig.defaultTeams)) ELSE <<>>
  IN  fromBuild \o Parse(Stringify(servers))

(* function mergeDefaultTeams(servers) *)
mergeDefaultTeams(servers) ==
  LET fromBuild == IF hasBuildConfigDefaultTeams(buildConfig)
                     THEN Parse(Stringify(buildConfig.defaultTeams)) ELSE <<>>
      fromUser == IF buildConfig.enableServerManagement
                    THEN Parse(Stringify(servers)) ELSE <<>>
  IN  fromBuild \o fromUser

----------------------------------------------------------------------------
(* The callback handed to regKey.values by getRegistryItemValue: it throws  *)
(* on err and when no item has the name, and otherwise returns the value    *)
(* to regKey.values, not to the caller of getRegistryItemValue.             *)
registryCallbackThrows(regKey, item) ==
  regKey.err \/ \A i \in 1..Len(regKey.items) : regKey.items[i].name # item

(* function getRegistryItemValue(regKey, item): has no return statement of  *)
(* its own.  What the callback throws reaches the caller only if the        *)
(* callback runs before regKey.values returns; otherwise it is raised       *)
(* later, outside every try block.                                          *)
getRegistryItemValue(regKey, item) ==
  [threw |-> callbackSync /\ registryCallbackThrows(regKey, item),
   uncaught |-> ~callbackSync /\ registryCallbackThrows(regKey, item),
   value |-> Undefined]

(* function isAddingNewServerPreventedByGPO() *)
isAddingNewServerPreventedByGPO ==
  LET user == getRegistryItemValue(registry.HKCU.policy, "PreventAddNewServer")
      machine == getRegistryItemValue(registry.HKLM.policy, "PreventAddNewServer")
  IN  IF module = "part_000"
        \* new Registry(...): Registry is not defined, in the try block and
        \* again in the catch block
        THEN [outcome |-> "raised", result |-> Undefined,
              consulted |-> <<>>, uncaught |-> FALSE]
      ELSE IF ~user.threw /\ user.value = JsNumber(1)
        THEN [outcome |-> "returned", result |-> TRUE,
              consulted |-> <<"HKCU">>, uncaught |-> user.uncaught]
      ELSE IF ~machine.threw /\ machine.value = JsNumber(1)
        THEN [outcome |-> "returned", result |-> TRUE,
              consulted |-> <<"HKCU", "HKLM">>,
              uncaught |-> user.uncaught \/ machine.uncaught]
      ELSE [outcome |-> "returned", result |-> FALSE,
            consulted |-> <<"HKCU", "HKLM">>,
            uncaught |-> user.uncaught \/ machine.uncaught]

(* getDefaultServerListFromGPO, the decoding loop.  i counts from 0 as in   *)
(* the source; the inner loops reuse i, so after them i is the number of    *)
(* tokens of the name.  typeof of a token is never "number".                *)
RECURSIVE decodeServers(_, _, _, _)
decodeServers(registryItems, i, servers, seen) ==
  IF i >= Len(registryItems)
    THEN [outcome |-> "returned", result |-> servers]
  ELSE IF i \in seen
    THEN [outcome |-> "diverges", result |-> Undefined]
  ELSE LET nameTokenized == registryItems[i + 1].name
           k == Len(nameTokenized)
       IN  IF k >= Len(registryItems)
             THEN [outcome |-> "raised", result |-> Undefined]
             ELSE decodeServers(registryItems, k + 1,
                    Append(servers, [name |-> <<"undefined">> \o nameTokenized,
                                     index |-> FALSE,
                                     url |-> registryItems[k + 1].value]),
                    seen \cup {i})

(* function getDefaultServerListFromGPO() *)
getDefaultServerListFromGPO ==
  LET regKey == registry.HKCU.servers
      registryItems == IF callbackSync THEN regKey.items ELSE <<>>
      decoded == decodeServers(registryItems, 0, <<>>, {})
  IN  IF module = "part_000"
        THEN [outcome |-> "raised", result |-> Undefined, uncaught |-> FALSE]
      ELSE IF callbackSync /\ regKey.err
        \* the catch block: new Registry(...), Registry is not defined
        THEN [outcome |-> "raised", result |-> Undefined, uncaught |-> FALSE]
      ELSE [outcome |-> decoded.outcome, result |-> decoded.result,
            uncaught |-> ~callbackSync /\ regKey.err]

----------
(* The calls the host makes *)

UserTeamLists == {<<>>, <<[name |-> "mine", url |-> "https://a"]>>}

DiskDocs ==
  {[version |-> v, teams |-> t] : v \in Versions, t \in UserTeamLists}
    \cup {[version |-> CurrentVersion, teams |-> <<>>,
           enableHardwareAcceleration |-> FALSE]}

SaveDocs ==
  {[version |-> v, teams |-> <<[name |-> "mine", url |-> "https://b"]>>]
     : v \in Versions}

ReadFaults == IF Parses(fs.file) THEN BOOLEAN ELSE {FALSE}

CallInit ==
  \E readFault \in ReadFaults, upgradeFails \in BOOLEAN,
     backFault, seedFault \in WriteFaults :
    LET r == init(fs, readFault, upgradeFails, backFault, seedFault)
    IN  /\ fs' = r.fs
        /\ configFile' = TRUE
        /\ last' = [op |-> "init", outcome |-> r.outcome, result |-> r.result,
                    pre |-> fs, arg |-> Undefined, info |-> r.info]
        /\ UNCHANGED <<defaultPreferences, buildConfig, platform, module,
                       registry, callbackSync>>

(* function read() *)
CallRead ==
  \E readFault \in ReadFaults :
    LET rd == readFileSync(fs, readFault)
        threw == ~configFile \/ rd.threw
    IN  /\ module = "settings.js"
        /\ last' = [op |-> "read",
                    outcome |-> IF threw THEN "raised" ELSE "returned",
                    result |-> IF threw THEN Undefined ELSE rd.config,
                    pre |-> fs, arg |-> Undefined, info |-> Undefined]
        /\ UNCHANGED <<fs, configFile, defaultPreferences, buildConfig,
                       platform, module, registry, callbackSync>>

(* function save(config) *)
CallSave ==
  \E config \in SaveDocs, fault \in WriteFaults :
    LET w == writeFileSync(fs, config, fault)
        badPath == config.version = defaultPreferences.version /\ ~configFile
    IN  /\ module = "settings.js"
        /\ fs' = IF badPath THEN fs ELSE w.fs
        /\ last' = [op |-> "save",
                    outcome |-> IF badPath \/ w.threw THEN "raised" ELSE "returned",
                    result |-> Undefined, pre |-> fs, arg |-> config,
                    info |-> [fault |-> fault]]
        /\ UNCHANGED <<configFile, defaultPreferences, buildConfig, platform,
                       module, registry, callbackSync>>

(* writeFile(configFile, config, callback), up to the callback *)
CallWriteFile ==
  \E config \in SaveDocs, fault \in WriteFaults \ {"mkdir"} :
    LET w == writeFile(fs, config, fault)
    IN  /\ configFile
        /\ fs' = w.fs
        /\ last' = [op |-> "writeFile",
                    outcome |-> IF w.threw THEN "raised" ELSE "returned",
                    result |-> [err |-> w.err], pre |-> fs, arg |-> config,
                    info |-> [fault |-> fault]]
        /\ UNCHANGED <<configFile, defaultPreferences, buildConfig, platform,
                       module, registry, callbackSync>>

----------------------------------------------------------------------------
NoCall == [op |-> "none", outcome |-> "none", result |-> Undefined,
           pre |-> Undefined, arg |-> Undefined, info |-> Undefined]

NoKey == [err |-> TRUE, items |-> <<>>]
Key(items) == [err |-> FALSE, items |-> items]
Hive(policy, servers) == [policy |-> policy, servers |-> servers]

PreventItem(v) == [name |-> "PreventAddNewServer", value |-> JsNumber(v)]
ServerItem(tokens, url) == [name |-> tokens, value |-> url]

DefaultPreferencesChoices ==
  {[version |-> CurrentVersion, teams |-> t, enableHardwareAcceleration |-> TRUE]
     : t \in {<<>>, <<[name |-> "vendor", url |-> "https://b"]>>}}
  \cup
  {[version |-> CurrentVersion, teams |-> t, enableHardwareAcceleration |-> TRUE,
    defaultTeam |-> JsString("https://a")]
     : t \in {<<>>, <<[name |-> "vendor", url |-> "https://b"]>>}}

StoreRegistries ==
  {[HKCU |-> Hive(p, s), HKLM |-> Hive(NoKey, NoKey)] :
     p \in {NoKey, Key(<<PreventItem(1)>>)},
     s \in {Key(<<ServerItem(<<"1", "Alpha">>, "https://b")>>)}}

Init ==
  /\ fs \in {[dir |-> FALSE, file |-> Absent], [dir |-> TRUE, file |-> Absent],
             [dir |-> TRUE, file |-> Garbage]}
            \cup {[dir |-> TRUE, file |-> Stringify(d)] : d \in DiskDocs}
  /\ configFile = FALSE
  /\ defaultPreferences \in DefaultPreferencesChoices
  /\ buildConfig = [defaultTeams |-> <<>>, enableServerManagement |-> TRUE]
  /\ platform \in {"win32", "linux"}
  /\ module \in {"settings.js", "part_000"}
  /\ registry \in StoreRegistries
  /\ callbackSync = FALSE
  /\ last = NoCall

Next == CallInit \/ CallRead \/ CallSave \/ CallWriteFile

Spec == Init /\ [][Next]_vars

----------------------------------------------------------------------------
(* mergeDefaultTeams on its own *)

TeamLists == SeqsUpTo(Team, MaxTeams)

CallMergeDefaultTeams ==
  \E servers \in TeamLists :
    /\ last' = [op |-> "mergeDefaultTeams", outcome |-> "returned",
                result |-> mergeDefaultTeams(servers), pre |-> buildConfig,
                arg |-> servers, info |-> [servers |-> servers]]
    /\ UNCHANGED <<fs, configFile, defaultPreferences, buildConfig, platform,
                   module, registry, callbackSync>>

InitMerge ==
  /\ fs = [dir |-> FALSE, file |-> Absent]
  /\ configFile = FALSE
  /\ defaultPreferences \in DefaultPreferencesChoices
  /\ Len(defaultPreferences.teams) = 0 /\ ~IsTruthy(defaultPreferences, "defaultTeam")
  /\ buildConfig \in [defaultTeams : TeamLists, enableServerManagement : BOOLEAN]
  /\ platform = "linux"
  /\ module \in {"settings.js", "part_000"}
  /\ registry = [HKCU |-> Hive(NoKey, NoKey), HKLM |-> Hive(NoKey, NoKey)]
  /\ callbackSync = FALSE
  /\ last = NoCall

NextMerge == CallMergeDefaultTeams

SpecMerge == InitMerge /\ [][NextMerge]_vars

----------------------------------------------------------------------------
(* The policy lookups on their own *)

CallIsAddingNewServerPreventedByGPO ==
  LET r == isAddingNewServerPreventedByGPO
  IN  /\ last' = [op |-> "isAddingNewServerPreventedByGPO",
                  outcome |-> r.outcome, result |-> r.result,
                  pre |-> Undefined, arg |-> Undefined,
                  info |-> [consulted |-> r.consulted, uncaught |-> r.uncaught]]
      /\ UNCHANGED <<fs, configFile, defaultPreferences, buildConfig, platform,
                     module, registry, callbackSync>>

CallGetDefaultServerListFromGPO ==
  LET r == getDefaultServerListFromGPO
  IN  /\ last' = [op |-> "getDefaultServerListFromGPO",
                  outcome |-> r.outcome, result |-> r.result,
                  pre |-> Undefined, arg |-> Undefined,
                  info |-> [uncaught |-> r.uncaught]]
      /\ UNCHANGED <<fs, configFile, defaultPreferences, buildConfig, platform,
                     module, registry, callbackSync>>

PolicyKeys == {NoKey, Key(<<>>), Key(<<PreventItem(0)>>), Key(<<PreventItem(1)>>)}

ServerItems == {ServerItem(<<"1", "Alpha">>, "https://a"),
                ServerItem(<<"Beta">>, "https://b")}

ServerKeys == {NoKey} \cup {Key(s) : s \in SeqsUpTo(ServerItems, MaxItems)}

InitPolicy ==
  /\ fs = [dir |-> FALSE, file |-> Absent]
  /\ configFile = FALSE
  /\ defaultPreferences \in DefaultPreferencesChoices
  /\ Len(defaultPreferences.teams) = 0 /\ ~IsTruthy(defaultPreferences, "defaultTeam")
  /\ buildConfig = [defaultTeams |-> <<>>, enableServerManagement |-> TRUE]
  /\ platform = "win32"
  /\ module \in {"settings.js", "part_000"}
  /\ registry \in [HKCU : [policy : PolicyKeys, servers : ServerKeys],
                   HKLM : [policy : PolicyKeys, servers : ServerKeys]]
  /\ callbackSync \in BOOLEAN
  /\ last = NoCall

NextPolicy == CallIsAddingNewServerPreventedByGPO \/ CallGetDefaultServerListFromGPO

SpecPolicy == InitPolicy /\ [][NextPolicy]_vars

----------------------------------------------------------------------------
(* Properties *)

IsDocument(x) == {"version", "teams"} \subseteq DOMAIN x

(* The properties of init and of the policy lookup are stated of            *)
(* settings.js, the module that exports read and save and whose init        *)
(* returns the document.                                                    *)
InSettings == module = "settings.js"

InitReturned == InSettings /\ last.op = "init" /\ last.outcome = "returned"

(* the file init found was absent or did not parse *)
InitFoundNoDocument == InSettings /\ last.op = "init" /\ ~Parses(last.pre.file)

SeedApplies ==
  Len(defaultPreferences.teams) = 0 /\ IsTruthy(defaultPreferences, "defaultTeam")

SeededDefault ==
  [defaultPreferences EXCEPT !.teams = <<defaultPreferences.defaultTeam>>]

(* C1: after init returns normally having read a parseable document whose   *)
(* version differs from the current one, the content of config.json is the  *)
(* document init returned, whatever the upgrade and the write-back did.     *)
C1_DiskEqualsReturned ==
  (InitReturned /\ last.info.path.read = "ok" /\ last.info.path.differs)
    => fs.file = Stringify(last.result)

(* C2: when init reads a parseable document of another version and the      *)
(* upgrade fails, init raises to the host and config.json keeps the content *)
(* it had before init.                                                      *)
C2_UpgradeFailureSurfaced ==
  (InSettings /\ last.op = "init" /\ last.info.path.upgrade = "threw")
    => (last.outcome = "raised" /\ fs = last.pre)

(* C3: save (writeFileSync / writeFile) of a document whose version is not  *)
(* the build's current version fails and changes nothing in the file        *)
(* system: no directory is created and config.json is unchanged.            *)
C3_StaleVersionRejected ==
  (last.op \in {"save", "writeFile"}
     /\ last.arg.version # defaultPreferences.version)
    => (last.outcome = "raised" /\ fs = last.pre)

C3_Witness ==
  /\ last.op = "save"
  /\ last.arg.version # defaultPreferences.version
  /\ last.outcome = "raised"
  /\ ~last.pre.dir
  /\ last.info.fault = "ok"

(* C4: a save of a current-version document that fails at any step leaves   *)
(* config.json as it was before the save: the previous content, or absent.  *)
C4_FailedSaveLeavesFile ==
  (last.op = "save" /\ last.arg.version = defaultPreferences.version
     /\ last.outcome = "raised")
    => fs.file = last.pre.file

(* C5: when config.json is absent or does not parse, init never raises: it  *)
(* returns a document built from the defaults, whatever the file-system     *)
(* calls of the fallback path do.                                           *)
C5_FallbackNeverRaises ==
  InitFoundNoDocument
    => (last.outcome = "returned"
          /\ last.result = IF SeedApplies THEN SeededDefault
                           ELSE defaultPreferences)

(* C6: when init falls back to the defaults (file absent or corrupt) and    *)
(* the defaults have no teams but a defaultTeam URL, the returned document  *)
(* has exactly one team, a Team whose url is that URL, and the document is  *)
(* in config.json; otherwise the fallback path writes nothing.              *)
C6_SeedsOneTeam ==
  (InitReturned /\ InitFoundNoDocument)
    => IF SeedApplies
         THEN /\ IsDocument(last.result)
              /\ Len(last.result.teams) = 1
              /\ {"name", "url"} \subseteq DOMAIN last.result.teams[1]
              /\ JsString(last.result.teams[1].url) = defaultPreferences.defaultTeam
              /\ fs.file = Stringify(last.result)
         ELSE fs = last.pre

UniqueUrls(teams) ==
  \A i, j \in 1..Len(teams) : teams[i].url = teams[j].url => i = j

(* C7: after mergeDefaultTeams no two entries of the returned list share a  *)
(* url; of a vendor default and a user team with the same url only the      *)
(* user's entry remains.                                                    *)
C7_NoDuplicateUrls ==
  (last.op = "mergeDefaultTeams" /\ UniqueUrls(last.pre.defaultTeams)
     /\ UniqueUrls(last.arg))
    => \A i, j \in 1..Len(last.result) :
         last.result[i].url = last.result[j].url => i = j

(* C8: mergeDefaultTeams returns the build's default teams in their order,  *)
(* followed by the user's teams in their order when server management is    *)
(* enabled and by nothing when it is disabled; its inputs are unchanged.    *)
C8_DefaultsThenUserTeams ==
  last.op = "mergeDefaultTeams"
    => LET d == last.pre.defaultTeams
           n == Len(d)
           m == IF last.pre.enableServerManagement THEN Len(last.arg) ELSE 0
       IN  /\ Len(last.result) = n + m
           /\ \A i \in 1..n : last.result[i] = d[i]
           /\ \A j \in 1..m : last.result[n + j] = last.arg[j]
           /\ last.info.servers = last.arg
           /\ buildConfig = last.pre

C8_Witness ==
  /\ last.op = "mergeDefaultTeams"
  /\ ~buildConfig.enableServerManagement
  /\ Len(buildConfig.defaultTeams) > 0
  /\ Len(last.arg) > 0
  /\ last.result = buildConfig.defaultTeams

(* The policy as the registry states it: the user hive first, the machine   *)
(* hive when the user hive has no such setting.                             *)
HasSetting(regKey, item) ==
  ~regKey.err /\ \E i \in 1..Len(regKey.items) : regKey.items[i].name = item

SettingValue(regKey, item) ==
  LET i == CHOOSE i \in 1..Len(regKey.items) : regKey.items[i].name = item
  IN  regKey.items[i].value

PolicyPrevents ==
  IF HasSetting(registry.HKCU.policy, "PreventAddNewServer")
    THEN SettingValue(registry.HKCU.policy, "PreventAddNewServer") # JsNumber(0)
  ELSE IF HasSetting(registry.HKLM.policy, "PreventAddNewServer")
    THEN SettingValue(registry.HKLM.policy, "PreventAddNewServer") # JsNumber(0)
  ELSE FALSE

PolicyUrls ==
  LET regKey == IF registry.HKCU.servers.err THEN registry.HKLM.servers
                ELSE registry.HKCU.servers
  IN  [i \in 1..Len(regKey.items) |-> regKey.items[i].value]

UrlOf(entry) == IF "url" \in DOMAIN entry THEN entry.url ELSE ""

(* C9: on win32 the document init returns has its teams composed with the   *)
(* policy: exactly the policy's servers if adding servers is prevented,     *)
(* otherwise the policy's servers after the existing teams.                 *)
C9_PolicyComposed ==
  (InitReturned /\ platform = "win32")
    => /\ IsDocument(last.result)
       /\ LET urls == [i \in 1..Len(last.result.teams) |-> UrlOf(last.result.teams[i])]
          IN  IF PolicyPrevents
                THEN urls = PolicyUrls
                ELSE \A p \in 1..Len(PolicyUrls) :
                       \E i \in 1..Len(urls) : urls[i] = PolicyUrls[p]

(* C10: isAddingNewServerPreventedByGPO returns the user hive's             *)
(* PreventAddNewServer setting when present (non-zero means prevented),     *)
(* consults the machine hive only when the user hive has none, returns      *)
(* false when neither has it, and never raises for a missing key or value.  *)
C10_PreventedReflectsPolicy ==
  (InSettings /\ last.op = "isAddingNewServerPreventedByGPO")
    => /\ last.outcome = "returned"
       /\ last.result = PolicyPrevents
       /\ (HasSetting(registry.HKCU.policy, "PreventAddNewServer")
             => last.info.consulted = <<"HKCU">>)

====
